---- MODULE Spec2Model ----
(***************************************************************************)
(* Exporter (source/file/Exporter.js): toTopoJson builds a GeoJSON feature *)
(* list from hexagon tiles, fromGeoJSON delta-encodes GeoJSON rings into   *)
(* TopoJSON arcs.  toTopoJson runs on arguments drawn in the initial      *)
(* state; fromGeoJSON maps a feature collection drawn one feature at a     *)
(* time, as its map callback visits them.                                  *)
(***************************************************************************)
EXTENDS Integers, Sequences, FiniteSets, TLC

VARIABLES
  tiles,          \* toTopoJson argument: sequence of [id, position]
  dataset,        \* toTopoJson argument: sequence of <<id, metric>>
  geoCodeToName,  \* keys of geographyResource.getGeoCodeHash(geography)
  pc,             \* position in toTopoJson
  ti,             \* index of the element the current loop visits
  maxTileY,       \* line 24
  tilesByState,   \* line 30: property values of the object
  keyOrder,       \* line 30: property creation order of the object
  stateIds,       \* line 42: Object.keys(tilesByState)
  features,       \* line 42: features mapped so far
  flipLog,        \* every evaluation of the row expression on line 52
  topoResult,     \* what toTopoJson returned
  geoJSON,        \* fromGeoJSON argument: the features mapped so far
  gpc,            \* position in fromGeoJSON
  arcs,           \* line 142
  geometries,     \* line 152: geometries mapped so far
  geoResult       \* what fromGeoJSON returned

topoVars == <<tiles, dataset, geoCodeToName, pc, ti, maxTileY, tilesByState,
              keyOrder, stateIds, features, flipLog, topoResult>>
geoVars == <<geoJSON, gpc, arcs, geometries, geoResult>>
vars == <<topoVars, geoVars>>

----------------------------------------------------------------------------
(* Bounds of the explored inputs *)
MaxTiles == 2
MaxDataset == 2
MaxRow == 1
MaxFeatures == 2
MaxPaths == 2
MaxPoints == 3

(* JavaScript values: numbers (with NaN and -Infinity), undefined, arrays.  *)
(* One record shape for all of them keeps any two values comparable.        *)
Num(n) == [k |-> "num", n |-> n, a |-> <<>>]
NaN == [k |-> "nan", n |-> 0, a |-> <<>>]
NegInfinity == [k |-> "-inf", n |-> 0, a |-> <<>>]
Undefined == [k |-> "undefined", n |-> 0, a |-> <<>>]
Arr(s) == [k |-> "arr", n |-> 0, a |-> s]

(* a - b on JavaScript values: numbers subtract; undefined and the       *)
(* two-element arrays that stand for points convert to NaN                 *)
JsSub(a, b) ==
  CASE a.k = "num" /\ b.k = "num" -> Num(a.n - b.n)
    [] a.k = "-inf" /\ b.k = "num" -> NegInfinity
    [] OTHER -> NaN

(* a % m on JavaScript values: the result takes the sign of the dividend *)
JsRem(a, m) ==
  IF a.k = "num"
    THEN (IF a.n >= 0 THEN Num(a.n % m) ELSE Num(0 - ((0 - a.n) % m)))
    ELSE NaN

(* Math.max(a, b) *)
JsMax(a, b) ==
  CASE a.k = "nan" \/ b.k = "nan" -> NaN
    [] a.k = "-inf" -> b
    [] b.k = "-inf" -> a
    [] OTHER -> IF a.n >= b.n THEN a ELSE b

----------------------------------------------------------------------------
(* toTopoJson *)

RegionIds == {"A", "01", "2", "10"}

(* The array index a property key stands for, -1 if it is not a canonical   *)
(* array index ("2" and "10" are, "A" and "01" are not)                     *)
ArrayIndex(id) ==
  CASE id = "2" -> 2
    [] id = "10" -> 10
    [] OTHER -> 0 - 1

SeqsUpTo(S, n) == UNION {[1..k -> S] : k \in 0..n}

(* Tile lists: tiles occupy distinct grid cells, the i-th tile of the list *)
(* in column i - 1 and in any row                                          *)
TileLists ==
  {[i \in DOMAIN c |-> [id |-> c[i][1], position |-> [x |-> i - 1, y |-> c[i][2]]]] :
     c \in SeqsUpTo(RegionIds \X (0..MaxRow), MaxTiles)}

(* Datasets: region ids unique within the dataset; the i-th entry's metric *)
(* is 10 * i, so that every entry is told from the others by its metric    *)
Datasets ==
  {[i \in DOMAIN c |-> <<c[i], 10 * i>>] :
     c \in {q \in SeqsUpTo(RegionIds, MaxDataset) :
              \A i, j \in DOMAIN q : q[i] = q[j] => i = j}}

(* property value of tilesByState: absent, null, or an array of tiles *)
NoValue == [k |-> "undefined", a |-> <<>>]
Null == [k |-> "null", a |-> <<>>]
TileArray(s) == [k |-> "arr", a |-> s]

(* lines 24-27: tiles.reduce((max, tile) => Math.max(max, tile.position.y), -Infinity) *)
RECURSIVE ReduceMaxY(_, _)
ReduceMaxY(ts, max) ==
  IF ts = <<>> THEN max
  ELSE ReduceMaxY(Tail(ts), JsMax(max, Num(Head(ts).position.y)))

(* the row flip without the parity term *)
FlippedYNoParity(maxY, y) == JsSub(maxY, Num(y))

(* line 52: (maxTileY - tile.position.y) - (maxTileY % 2) *)
FlippedY(maxY, y) == JsSub(JsSub(maxY, Num(y)), JsRem(maxY, 2))

(* gridGeometry.tileCenterPoint and getPointsAround: the hexagon around a  *)
(* grid cell, as six corners named by the cell and their position in it    *)
HexCorners == 6
TileCenterPoint(p) == [x |-> p.x, y |-> p.y]
GetPointsAround(center) == [i \in 1..HexCorners |-> <<center.x, center.y, i>>]

(* lines 48-57: the closed ring of one tile *)
HexagonPoints(tile, maxY) ==
  LET center == TileCenterPoint([x |-> tile.position.x,
                                 y |-> FlippedY(maxY, tile.position.y)])
      hexagonPoints == GetPointsAround(center)
  IN  Append(hexagonPoints, hexagonPoints[1])

(* geographyResource.getGeoCodeHash(geography): region code -> {name}; the *)
(* selected geography knows every region of the model, or lacks "A" or "2" *)
NameTable ==
  [r \in RegionIds |->
     [name |-> CASE r = "A" -> "Alpha" [] r = "01" -> "One" [] r = "2" -> "Two"
                 [] OTHER -> "Ten"]]
GeoCodeHashes ==
  {NameTable} \cup {[r \in RegionIds \ {q} |-> NameTable[r]] : q \in {"A", "2"}}

(* lines 58-68: Polygon for one tile, MultiPolygon otherwise *)
Geometry(tilesCoordinates) ==
  IF Len(tilesCoordinates) # 1
    THEN [type |-> "MultiPolygon",
          coordinates |-> [t \in DOMAIN tilesCoordinates |-> <<tilesCoordinates[t]>>]]
    ELSE [type |-> "Polygon", coordinates |-> tilesCoordinates]
NullGeometry == [type |-> "null", coordinates |-> <<>>]

(* keys in property creation order whatever their form *)
ObjectKeysInsertion(order) == order

(* line 42: Object.keys: array-index keys in ascending numeric order, then *)
(* the other string keys in property creation order                        *)
RECURSIVE Ascending(_)
Ascending(S) ==
  IF S = {} THEN <<>>
  ELSE LET m == CHOOSE k \in S : \A j \in S : ArrayIndex(k) <= ArrayIndex(j)
       IN  <<m>> \o Ascending(S \ {m})
IsArrayIndex(id) == ArrayIndex(id) >= 0
NotArrayIndex(id) == ArrayIndex(id) < 0
ObjectKeys(order) ==
  Ascending({order[i] : i \in {j \in DOMAIN order : IsArrayIndex(order[j])}})
    \o SelectSeq(order, NotArrayIndex)

(* a lookup that falls back to the last entry when nothing matches *)
DatasetFindOrLast(ds, stateId) ==
  IF \E i \in DOMAIN ds : ds[i][1] = stateId
    THEN CHOOSE i \in DOMAIN ds :
           ds[i][1] = stateId /\ \A j \in 1..(i - 1) : ds[j][1] # stateId
    ELSE Len(ds)

(* line 76: dataset.find(d => d[0] === stateId): index of the first match, 0 if none *)
DatasetFind(ds, stateId) ==
  IF \E i \in DOMAIN ds : ds[i][1] = stateId
    THEN CHOOSE i \in DOMAIN ds :
           ds[i][1] = stateId /\ \A j \in 1..(i - 1) : ds[j][1] # stateId
    ELSE 0

NotReturned == [returned |-> FALSE, features |-> <<>>]

(* an aggregation that puts each tile in front of its region's list *)
RECURSIVE AggregateTilesUnshift(_, _)
AggregateTilesUnshift(obj, ts) ==
  IF ts = <<>> THEN obj
  ELSE LET tile == Head(ts)
           old == obj.values[tile.id]
           created == IF old.k = "undefined" THEN TileArray(<<>>) ELSE old
       IN  AggregateTilesUnshift(
             [values |-> [obj.values EXCEPT ![tile.id] =
                            TileArray(<<tile>> \o created.a)],
              order |-> IF old.k = "undefined" THEN Append(obj.order, tile.id)
                                               ELSE obj.order],
             Tail(ts))

(* lines 30-36: tiles.forEach, on the object as [values, order] *)
RECURSIVE AggregateTiles(_, _)
AggregateTiles(obj, ts) ==
  IF ts = <<>> THEN obj
  ELSE LET tile == Head(ts)
           old == obj.values[tile.id]
           created == IF old.k = "undefined" THEN TileArray(<<>>) ELSE old
       IN  AggregateTiles(
             [values |-> [obj.values EXCEPT ![tile.id] =
                            TileArray(Append(created.a, tile))],
              order |-> IF old.k = "undefined" THEN Append(obj.order, tile.id)
                                               ELSE obj.order],
             Tail(ts))

(* a dataset pass that adds nothing *)
SkipDatasetEntries(obj, ds) == obj

(* lines 37-40: dataset.forEach; !value holds for undefined and for null *)
RECURSIVE AddDatasetEntries(_, _)
AddDatasetEntries(obj, ds) ==
  IF ds = <<>> THEN obj
  ELSE LET id == Head(ds)[1]
           old == obj.values[id]
       IN  AddDatasetEntries(
             [values |-> IF old.k \in {"undefined", "null"}
                           THEN [obj.values EXCEPT ![id] = Null] ELSE obj.values,
              order |-> IF old.k = "undefined" THEN Append(obj.order, id)
                                               ELSE obj.order],
             Tail(ds))

EmptyObject == [values |-> [r \in RegionIds |-> NoValue], order |-> <<>>]

(* lines 24-42: maxTileY, the aggregation, and the keys the map will visit *)
Aggregate ==
  /\ pc = "start"
  /\ maxTileY' = ReduceMaxY(tiles, NegInfinity)
  /\ LET obj == AddDatasetEntries(AggregateTiles(EmptyObject, tiles), dataset)
     IN  /\ tilesByState' = obj.values
         /\ keyOrder' = obj.order
         /\ stateIds' = ObjectKeys(obj.order)
         /\ pc' = IF obj.order = <<>> THEN "return" ELSE "features"
  /\ UNCHANGED <<tiles, dataset, geoCodeToName, ti, features, flipLog, topoResult>>
  /\ UNCHANGED geoVars

(* lines 42-80, one region: the geometry, then the name and metric lookups, *)
(* either of which throws a TypeError when it finds nothing                 *)
BuildFeature ==
  /\ pc = "features"
  /\ LET stateId == stateIds[ti]
         stateTiles == tilesByState[stateId]
         tilesCoordinates ==
           [t \in DOMAIN stateTiles.a |-> HexagonPoints(stateTiles.a[t], maxTileY)]
         geometry == IF stateTiles.k # "null" THEN Geometry(tilesCoordinates)
                                             ELSE NullGeometry
         found == DatasetFind(dataset, stateId)
     IN  /\ flipLog' = flipLog \cup
               {[maxY |-> maxTileY, y |-> stateTiles.a[t].position.y,
                 flippedY |-> FlippedY(maxTileY, stateTiles.a[t].position.y)] :
                  t \in DOMAIN stateTiles.a}
         /\ \/ /\ stateId \in DOMAIN geoCodeToName
               /\ found # 0
               /\ features' = Append(features,
                    [type |-> "Feature", geometry |-> geometry, id |-> stateId,
                     properties |-> [name |-> geoCodeToName[stateId].name,
                                     tilegramValue |-> dataset[found][2]]])
               /\ ti' = IF ti = Len(stateIds) THEN 1 ELSE ti + 1
               /\ pc' = IF ti = Len(stateIds) THEN "return" ELSE "features"
            \/ /\ stateId \notin DOMAIN geoCodeToName \/ found = 0
               /\ pc' = "error"
               /\ UNCHANGED <<features, ti>>
  /\ UNCHANGED <<tiles, dataset, geoCodeToName, maxTileY, tilesByState, keyOrder,
                 stateIds, topoResult>>
  /\ UNCHANGED geoVars

(* lines 81-98: the feature collection goes to topology() and the result   *)
(* is returned                                                             *)
ReturnTopoJson ==
  /\ pc = "return"
  /\ topoResult' = [returned |-> TRUE, features |-> features]
  /\ pc' = "done"
  /\ UNCHANGED <<tiles, dataset, geoCodeToName, ti, maxTileY, tilesByState,
                 keyOrder, stateIds, features, flipLog>>
  /\ UNCHANGED geoVars

TopoNext ==
  \/ Aggregate
  \/ BuildFeature
  \/ ReturnTopoJson

NotReturnedGeo ==
  [returned |-> FALSE, type |-> "", transform |-> <<>>, objects |-> <<>>,
   arcs |-> <<>>]

(* toTopoJson is called on tiles, a dataset and a geography; fromGeoJSON   *)
(* is not running                                                          *)
InitTopo ==
  /\ tiles \in TileLists
  /\ dataset \in Datasets
  /\ geoCodeToName \in GeoCodeHashes
  /\ pc = "start"
  /\ ti = 1
  /\ maxTileY = Undefined
  /\ tilesByState = EmptyObject.values
  /\ keyOrder = <<>>
  /\ stateIds = <<>>
  /\ features = <<>>
  /\ flipLog = {}
  /\ topoResult = NotReturned
  /\ geoJSON = <<>>
  /\ gpc = "idle"
  /\ arcs = <<>>
  /\ geometries = <<>>
  /\ geoResult = NotReturnedGeo

SpecTopo == InitTopo /\ [][TopoNext]_vars

----------------------------------------------------------------------------
(* fromGeoJSON *)

FeatureIds == {"a", "b"}
Points == {Arr(<<Num(0), Num(0)>>), Arr(<<Num(2), Num(0 - 1)>>)}

(* The size of a list of points: its length, an empty list counting as 1 *)
Cost(r) == IF r = <<>> THEN 1 ELSE Len(r)

(* Lists of at most m rings of size at most n in all *)
RingsWithin(n) == {q \in SeqsUpTo(Points, n) : Cost(q) <= n}
RECURSIVE RingLists(_, _)
RingLists(m, n) ==
  {<<>>} \cup
  IF m = 0 THEN {}
  ELSE UNION {{<<Arr(r)>> \o c : c \in RingLists(m - 1, n - Cost(r))} :
                r \in RingsWithin(n)}

(* Lists of at most m polygons of size at most n in all; a polygon is a    *)
(* list of one ring, or the empty list                                     *)
PartsWithin(n) ==
  (IF n >= 1 THEN {<<>>} ELSE {}) \cup {<<Arr(q)>> : q \in RingsWithin(n)}
PartCost(p) == IF p = <<>> THEN 1 ELSE Cost(p[1].a)
RECURSIVE PartLists(_, _)
PartLists(m, n) ==
  {<<>>} \cup
  IF m = 0 THEN {}
  ELSE UNION {{<<Arr(p)>> \o c : c \in PartLists(m - 1, n - PartCost(p))} :
                p \in PartsWithin(n)}

(* GeoJSON geometries: a Polygon is a list of rings (the outer ring, then  *)
(* holes), a MultiPolygon a list of polygons, a ring a list of points      *)
Geometries ==
  {[type |-> "Polygon", coordinates |-> Arr(c)] : c \in RingLists(MaxPaths, MaxPoints)}
  \cup
  {[type |-> "MultiPolygon", coordinates |-> Arr(c)] :
     c \in PartLists(MaxPaths, MaxPoints)}
FeatureSet == [id : FeatureIds, geometry : Geometries]

(* The size of a coordinates value: its points, an empty ring or polygon   *)
(* counting as 1                                                           *)
RECURSIVE Size(_)
Size(v) ==
  IF v \in Points \/ v.a = <<>> THEN 1
  ELSE LET RECURSIVE Sum(_)
           Sum(q) == IF q = <<>> THEN 0 ELSE Size(Head(q)) + Sum(Tail(q))
       IN  Sum(v.a)
FeatureSize(f) ==
  IF f.geometry.coordinates.a = <<>> THEN 0 ELSE Size(f.geometry.coordinates)
RECURSIVE SizeOf(_)
SizeOf(fs) == IF fs = <<>> THEN 0 ELSE FeatureSize(Head(fs)) + SizeOf(Tail(fs))
FeaturesOfSize == [n \in 0..MaxPoints |-> {f \in FeatureSet : FeatureSize(f) = n}]

(* Feature ids are copied, never read: the first feature's id is "a" *)
IdsAfter(fs) == IF fs = <<>> THEN {"a"} ELSE FeatureIds

(* v[i] for a JavaScript value v and an index i counted from 0 *)
Index(v, i) ==
  IF v.k = "arr" /\ i + 1 \in DOMAIN v.a THEN v.a[i + 1] ELSE Undefined

(* an arc whose displacements are all taken from the first point *)
ArcFromStart(points) ==
  [i \in DOMAIN points.a |->
     IF i = 1 THEN points.a[1]
     ELSE Arr(<<JsSub(Index(points.a[i], 0), Index(points.a[1], 0)),
                JsSub(Index(points.a[i], 1), Index(points.a[1], 1))>>)]

(* lines 157-167: the arc of the array points *)
Arc(points) ==
  [i \in DOMAIN points.a |->
     IF i = 1 THEN points.a[1]
     ELSE Arr(<<JsSub(Index(points.a[i], 0), Index(points.a[i - 1], 0)),
                JsSub(Index(points.a[i], 1), Index(points.a[i - 1], 1))>>)]

(* line 154 *)
HasMultiplePaths(feature) == Len(feature.geometry.coordinates.a) > 1

(* line 156 *)
PointsOf(feature, path) == IF HasMultiplePaths(feature) THEN Index(path, 0) ELSE path

(* an encoder that shares an arc already in the list instead of adding it *)
RECURSIVE EncodePathsShared(_, _, _)
EncodePathsShared(feature, p, acc) ==
  IF p > Len(feature.geometry.coordinates.a) THEN acc
  ELSE LET points == PointsOf(feature, feature.geometry.coordinates.a[p])
       IN  IF points.k # "arr" THEN [acc EXCEPT !.threw = TRUE]
           ELSE IF \E i \in DOMAIN acc.arcs : acc.arcs[i] = Arc(points)
             THEN EncodePathsShared(feature, p + 1,
                    [acc EXCEPT !.geometryArcIndices =
                       Append(@, (CHOOSE i \in DOMAIN acc.arcs :
                                    acc.arcs[i] = Arc(points)) - 1)])
             ELSE EncodePathsShared(feature, p + 1,
                    [arcs |-> Append(acc.arcs, Arc(points)),
                     geometryArcIndices |->
                       Append(acc.geometryArcIndices, Len(acc.arcs)),
                     threw |-> FALSE])

(* lines 155-170: coordinates.forEach from path p on; forEach of a value   *)
(* that is no array throws a TypeError                                     *)
RECURSIVE EncodePaths(_, _, _)
EncodePaths(feature, p, acc) ==
  IF p > Len(feature.geometry.coordinates.a) THEN acc
  ELSE LET points == PointsOf(feature, feature.geometry.coordinates.a[p])
       IN  IF points.k # "arr" THEN [acc EXCEPT !.threw = TRUE]
           ELSE EncodePaths(feature, p + 1,
                  [arcs |-> Append(acc.arcs, Arc(points)),
                   geometryArcIndices |-> Append(acc.geometryArcIndices, Len(acc.arcs)),
                   threw |-> FALSE])

(* a geometry that lists all its arcs as the rings of one polygon *)
OutputGeometryOnePolygon(feature, geometryArcIndices) ==
  [type |-> IF HasMultiplePaths(feature) THEN "MultiPolygon" ELSE "Polygon",
   id |-> feature.id,
   arcs |-> <<geometryArcIndices>>]

(* lines 171-177 *)
OutputGeometry(feature, geometryArcIndices) ==
  [type |-> IF HasMultiplePaths(feature) THEN "MultiPolygon" ELSE "Polygon",
   id |-> feature.id,
   arcs |-> IF HasMultiplePaths(feature)
              THEN [i \in DOMAIN geometryArcIndices |-> <<<<geometryArcIndices[i]>>>>]
              ELSE <<geometryArcIndices>>]

(* lines 152-178, one feature: the next feature of the collection, which *)
(* holds at most MaxFeatures features, of size at most MaxPoints in all     *)
EncodeFeature ==
  /\ gpc = "map"
  /\ Len(geoJSON) < MaxFeatures
  /\ \E n \in 0..(MaxPoints - SizeOf(geoJSON)) : \E feature \in FeaturesOfSize[n] :
       /\ feature.id \in IdsAfter(geoJSON)
       /\ geoJSON' = Append(geoJSON, feature)
       /\ LET out == EncodePaths(feature, 1,
                       [arcs |-> arcs, geometryArcIndices |-> <<>>, threw |-> FALSE])
          IN  \/ /\ ~out.threw
                 /\ arcs' = out.arcs
                 /\ geometries' = Append(geometries,
                                    OutputGeometry(feature, out.geometryArcIndices))
                 /\ UNCHANGED gpc
              \/ /\ out.threw
                 /\ gpc' = "error"
                 /\ UNCHANGED <<arcs, geometries>>
  /\ UNCHANGED geoResult
  /\ UNCHANGED topoVars

(* lines 143-151 and 179-183, once the last feature is mapped *)
ReturnTopology ==
  /\ gpc = "map"
  /\ geoResult' =
       [returned |-> TRUE,
        type |-> "Topology",
        transform |-> [scale |-> <<1, 1>>, translate |-> <<0, 0>>],
        objects |-> [states |-> [type |-> "GeometryCollection",
                                 geometries |-> geometries]],
        arcs |-> arcs]
  /\ gpc' = "done"
  /\ UNCHANGED <<geoJSON, arcs, geometries>>
  /\ UNCHANGED topoVars

GeoNext ==
  \/ EncodeFeature
  \/ ReturnTopology

(* fromGeoJSON is called on a feature collection; toTopoJson is not running *)
InitGeo ==
  /\ geoJSON = <<>>
  /\ gpc = "map"
  /\ arcs = <<>>
  /\ geometries = <<>>
  /\ geoResult = NotReturnedGeo
  /\ tiles = <<>>
  /\ dataset = <<>>
  /\ geoCodeToName = NameTable
  /\ pc = "idle"
  /\ ti = 1
  /\ maxTileY = Undefined
  /\ tilesByState = EmptyObject.values
  /\ keyOrder = <<>>
  /\ stateIds = <<>>
  /\ features = <<>>
  /\ flipLog = {}
  /\ topoResult = NotReturned

SpecGeo == InitGeo /\ [][GeoNext]_vars

----------------------------------------------------------------------------
(* Properties of toTopoJson, checked under SpecTopo *)

TilesOf(id) == SelectSeq(tiles, LAMBDA t : t.id = id)
DatasetIds == {dataset[i][1] : i \in DOMAIN dataset}
TileIds == {tiles[i].id : i \in DOMAIN tiles}
MetricOf(id) == dataset[CHOOSE i \in DOMAIN dataset : dataset[i][1] = id][2]

(* ids in order of first appearance *)
RECURSIVE FirstAppearances(_, _)
FirstAppearances(ids, seen) ==
  IF ids = <<>> THEN <<>>
  ELSE IF Head(ids) \in seen THEN FirstAppearances(Tail(ids), seen)
  ELSE <<Head(ids)>> \o FirstAppearances(Tail(ids), seen \cup {Head(ids)})
InsertionOrder ==
  FirstAppearances([i \in DOMAIN tiles |-> tiles[i].id]
                     \o [i \in DOMAIN dataset |-> dataset[i][1]], {})
PositionIn(q, id) == CHOOSE i \in DOMAIN q : q[i] = id

(* C4: in the feature list, a region with one tile has a Polygon holding    *)
(* that tile's ring, a region with N >= 2 tiles a MultiPolygon of N parts,  *)
(* the k-th part holding the ring of the region's k-th tile in tile order,  *)
(* and a region with no tile a null geometry with its id and properties.    *)
GeometryTypeSelection ==
  \A i \in DOMAIN features :
    LET f == features[i]
        ts == TilesOf(f.id)
    IN  /\ Len(ts) = 1 =>
             /\ f.geometry.type = "Polygon"
             /\ f.geometry.coordinates = <<HexagonPoints(ts[1], maxTileY)>>
        /\ Len(ts) >= 2 =>
             /\ f.geometry.type = "MultiPolygon"
             /\ Len(f.geometry.coordinates) = Len(ts)
             /\ \A k \in DOMAIN ts :
                  f.geometry.coordinates[k] = <<HexagonPoints(ts[k], maxTileY)>>
        /\ Len(ts) = 0 =>
             /\ f.geometry.type = "null"
             /\ f.id \in DatasetIds
             /\ f.properties = [name |-> NameTable[f.id].name,
                                tilegramValue |-> MetricOf(f.id)]

(* a returned list with a two-part region, its tiles in different rows, and *)
(* a region that has no tile                                                *)
GeometryTypeSelectionWitness ==
  /\ topoResult.returned
  /\ \E i, j \in DOMAIN topoResult.features :
       /\ topoResult.features[i].geometry.type = "MultiPolygon"
       /\ Len(topoResult.features[i].geometry.coordinates) = 2
       /\ topoResult.features[i].geometry.coordinates[1]
            # topoResult.features[i].geometry.coordinates[2]
       /\ topoResult.features[j].geometry.type = "null"

(* the inputs C5 is about: unique dataset ids, every tile id in the dataset, *)
(* every id in the name table                                               *)
CompleteInput ==
  /\ \A i, j \in DOMAIN dataset : dataset[i][1] = dataset[j][1] => i = j
  /\ TileIds \subseteq DatasetIds
  /\ DatasetIds \subseteq DOMAIN geoCodeToName

(* C5: on such inputs the call does not fail and returns one feature per    *)
(* dataset id, carrying that id's metric; with no tiles every geometry is   *)
(* null; the row expression is never evaluated on -Infinity.                *)
DatasetCompleteness ==
  /\ \A e \in flipLog : e.maxY.k = "num"
  /\ CompleteInput =>
       /\ pc # "error"
       /\ tiles = <<>> => flipLog = {}
       /\ topoResult.returned =>
            /\ Len(topoResult.features) = Len(dataset)
            /\ \A d \in DOMAIN dataset :
                 \E i \in DOMAIN topoResult.features :
                   /\ topoResult.features[i].id = dataset[d][1]
                   /\ topoResult.features[i].properties.tilegramValue = dataset[d][2]
            /\ tiles = <<>> =>
                 \A i \in DOMAIN topoResult.features :
                   topoResult.features[i].geometry.type = "null"

(* a call with no tiles and two dataset regions has returned *)
DatasetCompletenessWitness ==
  /\ CompleteInput
  /\ tiles = <<>>
  /\ Len(dataset) = 2
  /\ topoResult.returned
  /\ Len(topoResult.features) = 2

(* C6 as stated: the keys, and the features built from them, are in         *)
(* insertion order whatever the form of the ids.                            *)
KeysInInsertionOrder ==
  pc # "start" =>
    /\ stateIds = InsertionOrder
    /\ \A i \in DOMAIN features : features[i].id = InsertionOrder[i]

(* C6 as amended: ids that are array indices come first, in ascending       *)
(* numeric order; the other ids follow in insertion order; the features     *)
(* are built in the order of the keys.                                      *)
KeysIndexFirstThenInsertion ==
  pc # "start" =>
    /\ Len(stateIds) = Len(InsertionOrder)
    /\ {stateIds[i] : i \in DOMAIN stateIds}
         = {InsertionOrder[i] : i \in DOMAIN InsertionOrder}
    /\ \A i, j \in DOMAIN stateIds :
         i < j =>
           /\ IsArrayIndex(stateIds[j]) =>
                /\ IsArrayIndex(stateIds[i])
                /\ ArrayIndex(stateIds[i]) < ArrayIndex(stateIds[j])
           /\ NotArrayIndex(stateIds[i]) /\ NotArrayIndex(stateIds[j]) =>
                PositionIn(InsertionOrder, stateIds[i])
                  < PositionIn(InsertionOrder, stateIds[j])
    /\ \A i \in DOMAIN features : features[i].id = stateIds[i]
    /\ (\A i \in DOMAIN InsertionOrder : NotArrayIndex(InsertionOrder[i])) =>
         stateIds = InsertionOrder

(* a returned call whose features are not in insertion order *)
KeysIndexFirstWitness ==
  /\ topoResult.returned
  /\ Len(topoResult.features) = 2
  /\ stateIds # InsertionOrder

(* some tile's id is not in the dataset, or some aggregated id is not in    *)
(* the name table                                                           *)
MissingLookup ==
  \/ ~(TileIds \subseteq DatasetIds)
  \/ ~((TileIds \cup DatasetIds) \subseteq DOMAIN geoCodeToName)

(* C7: with a missing lookup the call never gets past the feature map and   *)
(* returns nothing; when it stops it has stopped in an error.               *)
FatalLookup ==
  MissingLookup =>
    /\ pc \in {"start", "features", "error"}
    /\ topoResult = NotReturned

(* the call failed after it had built a feature for a valid region *)
FatalLookupWitness ==
  /\ MissingLookup
  /\ pc = "error"
  /\ Len(features) >= 1
  /\ topoResult = NotReturned

(* C10: every flipped row is a number of the parity of the tile's row, and  *)
(* tiles in different rows get different flipped rows.                      *)
RowFlipKeepsParity ==
  /\ \A e \in flipLog :
       /\ e.flippedY.k = "num"
       /\ e.flippedY.n % 2 = e.y % 2
  /\ \A e1, e2 \in flipLog : e1.y # e2.y => e1.flippedY # e2.flippedY

(* two tiles in different rows were flipped under an odd maximum row *)
RowFlipWitness ==
  \E e1, e2 \in flipLog :
    /\ e1.y # e2.y
    /\ e1.maxY.k = "num"
    /\ e1.maxY.n % 2 = 1

----------------------------------------------------------------------------
(* Properties of fromGeoJSON, checked under SpecGeo *)

PathsOf(feature) == feature.geometry.coordinates.a
RECURSIVE PathsBefore(_)
PathsBefore(f) ==
  IF f = 1 THEN 0 ELSE PathsBefore(f - 1) + Len(PathsOf(geoJSON[f - 1]))
OutputGeometries == geoResult.objects.states.geometries

(* a + b on numbers *)
NumAdd(a, b) == IF a.k = "num" /\ b.k = "num" THEN Num(a.n + b.n) ELSE NaN

(* the points an arc stands for: its first entry, then each entry added to *)
(* the point before it, from left to right                                 *)
RECURSIVE DecodeArc(_)
DecodeArc(arc) ==
  IF Len(arc) <= 1 THEN arc
  ELSE LET front == DecodeArc(SubSeq(arc, 1, Len(arc) - 1))
           prev == front[Len(front)]
           step == arc[Len(arc)]
       IN  Append(front, Arr(<<NumAdd(Index(prev, 0), Index(step, 0)),
                               NumAdd(Index(prev, 1), Index(step, 1))>>))

(* C1: the arc of a Polygon feature's single ring of at least 2 points     *)
(* decodes to the ring.                                                    *)
RoundTrip ==
  geoResult.returned =>
    \A f \in DOMAIN geoJSON :
      LET feature == geoJSON[f]
      IN  (/\ feature.geometry.type = "Polygon"
           /\ Len(PathsOf(feature)) = 1
           /\ Len(PathsOf(feature)[1].a) >= 2) =>
            Arr(DecodeArc(geoResult.arcs[OutputGeometries[f].arcs[1][1] + 1]))
              = PathsOf(feature)[1]

(* a returned topology for a Polygon whose ring has three points, the      *)
(* second away from the first                                              *)
RoundTripWitness ==
  /\ geoResult.returned
  /\ \E f \in DOMAIN geoJSON :
       /\ geoJSON[f].geometry.type = "Polygon"
       /\ Len(PathsOf(geoJSON[f])) = 1
       /\ Len(PathsOf(geoJSON[f])[1].a) = 3
       /\ PathsOf(geoJSON[f])[1].a[1] # PathsOf(geoJSON[f])[1].a[2]

(* C2: the topology has one arc per coordinate path of the input, and the  *)
(* k-th path overall is encoded as the k-th arc.                           *)
ArcCountAndOrder ==
  geoResult.returned =>
    /\ Len(geoResult.arcs) = PathsBefore(Len(geoJSON) + 1)
    /\ \A f \in DOMAIN geoJSON : \A j \in DOMAIN PathsOf(geoJSON[f]) :
         geoResult.arcs[PathsBefore(f) + j]
           = Arc(PointsOf(geoJSON[f], PathsOf(geoJSON[f])[j]))

(* a returned topology of two features and three paths, two of them with   *)
(* the same points                                                         *)
ArcCountWitness ==
  /\ geoResult.returned
  /\ Len(geoJSON) = 2
  /\ Len(geoResult.arcs) = 3
  /\ Len(PathsOf(geoJSON[1])) >= 1
  /\ Len(PathsOf(geoJSON[2])) >= 1
  /\ \E i, j \in DOMAIN geoResult.arcs : i # j /\ geoResult.arcs[i] = geoResult.arcs[j]

(* C3: one geometry per feature, with the feature's id; a single path      *)
(* gives a Polygon whose arcs are [[i]], N > 1 paths give a MultiPolygon   *)
(* whose arcs are [[[i1]], ..., [[iN]]], the indices those of the paths'   *)
(* arcs; the transform is the identity.                                    *)
GeometryShape ==
  geoResult.returned =>
    /\ geoResult.transform = [scale |-> <<1, 1>>, translate |-> <<0, 0>>]
    /\ Len(OutputGeometries) = Len(geoJSON)
    /\ \A f \in DOMAIN geoJSON :
         LET n == Len(PathsOf(geoJSON[f]))
             g == OutputGeometries[f]
         IN  /\ g.id = geoJSON[f].id
             /\ n = 1 => /\ g.type = "Polygon"
                         /\ g.arcs = <<<<PathsBefore(f)>>>>
             /\ n > 1 => /\ g.type = "MultiPolygon"
                         /\ Len(g.arcs) = n
                         /\ \A j \in 1..n : g.arcs[j] = <<<<PathsBefore(f) + j - 1>>>>

(* a returned topology whose second feature has two paths, after a first   *)
(* feature of one path with another id                                     *)
GeometryShapeWitness ==
  /\ geoResult.returned
  /\ Len(geoJSON) = 2
  /\ Len(PathsOf(geoJSON[1])) = 1
  /\ Len(PathsOf(geoJSON[2])) = 2
  /\ geoJSON[1].id # geoJSON[2].id

(* the arc indices a geometry refers to *)
ArcRefs(g) ==
  IF g.type = "Polygon" THEN {g.arcs[1][i] : i \in DOMAIN g.arcs[1]}
  ELSE {g.arcs[j][1][1] : j \in DOMAIN g.arcs}

(* a feature with no coordinate path, or with a ring of fewer than 2 points *)
Malformed(feature) ==
  \/ PathsOf(feature) = <<>>
  \/ /\ feature.geometry.type = "Polygon"
     /\ \E j \in DOMAIN PathsOf(feature) : Len(PathsOf(feature)[j].a) < 2
  \/ /\ feature.geometry.type = "MultiPolygon"
     /\ \E j \in DOMAIN PathsOf(feature) :
          \/ PathsOf(feature)[j].a = <<>>
          \/ Len(PathsOf(feature)[j].a[1].a) < 2

(* C8: a malformed feature is rejected: no returned topology holds, for    *)
(* such a feature, a geometry that refers to no arc or whose arcs have     *)
(* fewer than 2 entries.                                                   *)
MalformedRejected ==
  geoResult.returned =>
    \A f \in DOMAIN OutputGeometries :
      Malformed(geoJSON[f]) =>
        /\ ArcRefs(OutputGeometries[f]) # {}
        /\ \A i \in ArcRefs(OutputGeometries[f]) : Len(geoResult.arcs[i + 1]) >= 2

(* a Polygon of one ring, or a MultiPolygon of one-ring polygons, every    *)
(* ring of at least 2 points                                               *)
RingOf(feature, j) ==
  IF feature.geometry.type = "Polygon" THEN PathsOf(feature)[j]
  ELSE PathsOf(feature)[j].a[1]
SingleRingParts(feature) ==
  /\ Len(PathsOf(feature)) >= 1
  /\ feature.geometry.type = "Polygon" => Len(PathsOf(feature)) = 1
  /\ feature.geometry.type = "MultiPolygon" =>
       \A j \in DOMAIN PathsOf(feature) : Len(PathsOf(feature)[j].a) = 1
  /\ \A j \in DOMAIN PathsOf(feature) : Len(RingOf(feature, j).a) >= 2

(* C9: every arc of such a feature has as many entries as its ring has     *)
(* points: the ring's first point, then ring[i] - ring[i-1].               *)
ArcLengthIsRingLength ==
  geoResult.returned =>
    \A f \in DOMAIN geoJSON :
      SingleRingParts(geoJSON[f]) =>
        \A j \in DOMAIN PathsOf(geoJSON[f]) :
          LET ring == RingOf(geoJSON[f], j).a
              arc == geoResult.arcs[PathsBefore(f) + j]
          IN  /\ Len(arc) = Len(ring)
              /\ arc[1] = ring[1]
              /\ \A i \in 2..Len(ring) :
                   arc[i] = Arr(<<Num(ring[i].a[1].n - ring[i - 1].a[1].n),
                                  Num(ring[i].a[2].n - ring[i - 1].a[2].n)>>)

====
